---- MODULE Spec2Model ----
(***************************************************************************)
(* SimpleBank ledger engine (SimpleBank/src/bank.rs): account balances,    *)
(* investment records and the next_id counter, mutated by deposit,         *)
(* withdraw, transfer, buy_investment and sell_investment.  Every step of  *)
(* the model is one call of one of the five functions by the driver        *)
(* (SimpleBank/tests/bank_mbt.rs); `call` and `error` record the call made *)
(* and the Option<String> it returned.                                     *)
(***************************************************************************)
EXTENDS Integers, FiniteSets, Sequences, TLC

\* ----- bounds of the model ------------------------------------------------
MaxAmount      == 2    \* largest amount argument
MaxBalance     == 2    \* calls that would raise a balance above it are not made
MaxNextId      == 2    \* no purchase is made once next_id reaches it
MaxInitBalance == 1    \* largest balance of the initial snapshot
MaxInitId      == 0    \* largest next_id of the initial snapshot

\* ----- inputs ---------------------------------------------------------------
Names        == {"alice", "bob", "carol"}   \* account identifiers a call may name
InitAccounts == {"alice", "bob"}            \* keys of balances in the snapshot
Amounts      == -1 .. MaxAmount             \* amount arguments (<= 0 included)
Ids          == 0 .. MaxNextId              \* investment_id arguments

\* ----- Option<String> results ----------------------------------------------
None            == "None"
ErrAmount       == "Amount should be greater than zero"
ErrBalance      == "Balance is too low"
ErrNotOwner     == "Seller can't sell an investment they don't own"
ErrNoInvestment == "No investment with this id"
Errors          == {ErrAmount, ErrBalance, ErrNotOwner, ErrNoInvestment}

NoName == "-"
NoInt  == -99

VARIABLES balances, investments, next_id, call, error, panicked

vars   == <<balances, investments, next_id, call, error, panicked>>
ledger == <<balances, investments, next_id>>

\* struct Investment { owner, amount }
Investment(owner, amount) == [owner |-> owner, amount |-> amount]

\* the call the driver made: action name and its nondet picks
Call(op, actor, receiver, amount, id) ==
    [op |-> op, actor |-> actor, receiver |-> receiver, amount |-> amount, id |-> id]

\* balances.entry(key).and_modify(|curr| *curr += delta): a no-op on an absent key
\* an update applied to every entry (values_mut) instead of the entry of key
and_modify_all(bal, key, delta) ==
    IF key \in DOMAIN bal THEN [k \in DOMAIN bal |-> bal[k] + delta] ELSE bal

and_modify(bal, key, delta) ==
    IF key \in DOMAIN bal THEN [bal EXCEPT ![key] = @ + delta] ELSE bal

\* investments.insert(id, inv): adds the key or overwrites its record
insert(invs, id, inv) ==
    [k \in DOMAIN invs \cup {id} |-> IF k = id THEN inv ELSE invs[k]]

RECURSIVE SumOver(_, _)
SumOver(bal, keys) ==
    IF keys = {} THEN 0
    ELSE LET k == CHOOSE x \in keys : TRUE
         IN  bal[k] + SumOver(bal, keys \ {k})

\* sum of all balances across all accounts
TotalBalance(bal) == SumOver(bal, DOMAIN bal)

\* ----- initial snapshot (trace.states[0].value.bank_state) ------------------
InitInvestments(n) ==
    UNION { [S -> [owner : InitAccounts, amount : 1 .. MaxAmount]] : S \in SUBSET (0 .. n - 1) }

Init ==
    /\ balances \in [InitAccounts -> 0 .. MaxInitBalance]
    /\ next_id \in 0 .. MaxInitId
    /\ investments \in InitInvestments(next_id)
    /\ call = Call("init", NoName, NoName, NoInt, NoInt)
    /\ error = None
    /\ panicked = FALSE

\* ----- the five operations --------------------------------------------------
Returns(e) == error' = e /\ panicked' = FALSE

\* balances.get(&key).unwrap() on an absent key: the call aborts, nothing is written
Panics == error' = error /\ panicked' = TRUE /\ UNCHANGED ledger

\* deposit written with entry().or_insert(0): an unknown depositor gets an entry
deposit_or_insert(depositor, amount) ==
    /\ call' = Call("deposit", depositor, NoName, amount, NoInt)
    /\ IF amount <= 0
       THEN Returns(ErrAmount) /\ UNCHANGED ledger
       ELSE /\ balances' = [k \in DOMAIN balances \cup {depositor} |->
                               IF k = depositor
                               THEN (IF k \in DOMAIN balances THEN balances[k] ELSE 0)
                                    + amount
                               ELSE balances[k]]
            /\ UNCHANGED <<investments, next_id>>
            /\ Returns(None)

deposit(depositor, amount) ==
    /\ call' = Call("deposit", depositor, NoName, amount, NoInt)
    /\ IF amount <= 0
       THEN Returns(ErrAmount) /\ UNCHANGED ledger
       ELSE /\ balances' = and_modify(balances, depositor, amount)
            /\ UNCHANGED <<investments, next_id>>
            /\ Returns(None)

\* withdraw with the amount test written `<` instead of `<=`
withdraw_zero_amount(withdrawer, amount) ==
    /\ call' = Call("withdraw", withdrawer, NoName, amount, NoInt)
    /\ IF amount < 0
       THEN Returns(ErrAmount) /\ UNCHANGED ledger
       ELSE IF withdrawer \notin DOMAIN balances
       THEN Panics
       ELSE IF balances[withdrawer] < amount
       THEN Returns(ErrBalance) /\ UNCHANGED ledger
       ELSE /\ balances' = and_modify(balances, withdrawer, 0 - amount)
            /\ UNCHANGED <<investments, next_id>>
            /\ Returns(None)

\* withdraw with the balance test written `<=`: withdrawing all is rejected
withdraw_rejects_exact(withdrawer, amount) ==
    /\ call' = Call("withdraw", withdrawer, NoName, amount, NoInt)
    /\ IF amount <= 0
       THEN Returns(ErrAmount) /\ UNCHANGED ledger
       ELSE IF withdrawer \notin DOMAIN balances
       THEN Panics
       ELSE IF balances[withdrawer] <= amount
       THEN Returns(ErrBalance) /\ UNCHANGED ledger
       ELSE /\ balances' = and_modify(balances, withdrawer, 0 - amount)
            /\ UNCHANGED <<investments, next_id>>
            /\ Returns(None)

\* withdraw reading an absent balance as zero (unwrap_or) instead of unwrap
withdraw_unwrap_or_zero(withdrawer, amount) ==
    /\ call' = Call("withdraw", withdrawer, NoName, amount, NoInt)
    /\ IF amount <= 0
       THEN Returns(ErrAmount) /\ UNCHANGED ledger
       ELSE IF withdrawer \notin DOMAIN balances
       THEN Returns(ErrBalance) /\ UNCHANGED ledger
       ELSE IF balances[withdrawer] < amount
       THEN Returns(ErrBalance) /\ UNCHANGED ledger
       ELSE /\ balances' = and_modify(balances, withdrawer, 0 - amount)
            /\ UNCHANGED <<investments, next_id>>
            /\ Returns(None)

withdraw(withdrawer, amount) ==
    /\ call' = Call("withdraw", withdrawer, NoName, amount, NoInt)
    /\ IF amount <= 0
       THEN Returns(ErrAmount) /\ UNCHANGED ledger
       ELSE IF withdrawer \notin DOMAIN balances
       THEN Panics
       ELSE IF balances[withdrawer] < amount
       THEN Returns(ErrBalance) /\ UNCHANGED ledger
       ELSE /\ balances' = and_modify(balances, withdrawer, 0 - amount)
            /\ UNCHANGED <<investments, next_id>>
            /\ Returns(None)

\* transfer with the balance test off by one
transfer_off_by_one(sender, receiver, amount) ==
    /\ call' = Call("transfer", sender, receiver, amount, NoInt)
    /\ IF amount <= 0
       THEN Returns(ErrAmount) /\ UNCHANGED ledger
       ELSE IF sender \notin DOMAIN balances
       THEN Panics
       ELSE IF balances[sender] + 1 < amount
       THEN Returns(ErrBalance) /\ UNCHANGED ledger
       ELSE /\ balances' = and_modify(and_modify(balances, sender, 0 - amount),
                                      receiver, amount)
            /\ UNCHANGED <<investments, next_id>>
            /\ Returns(None)

\* transfer that computes both new balances from the balances before the call
transfer_from_snapshot(sender, receiver, amount) ==
    /\ call' = Call("transfer", sender, receiver, amount, NoInt)
    /\ IF amount <= 0
       THEN Returns(ErrAmount) /\ UNCHANGED ledger
       ELSE IF sender \notin DOMAIN balances
       THEN Panics
       ELSE IF balances[sender] < amount
       THEN Returns(ErrBalance) /\ UNCHANGED ledger
       ELSE /\ balances' = [k \in DOMAIN balances |->
                               IF k = receiver THEN balances[k] + amount
                               ELSE IF k = sender THEN balances[k] - amount
                               ELSE balances[k]]
            /\ UNCHANGED <<investments, next_id>>
            /\ Returns(None)

transfer(sender, receiver, amount) ==
    /\ call' = Call("transfer", sender, receiver, amount, NoInt)
    /\ IF amount <= 0
       THEN Returns(ErrAmount) /\ UNCHANGED ledger
       ELSE IF sender \notin DOMAIN balances
       THEN Panics
       ELSE IF balances[sender] < amount
       THEN Returns(ErrBalance) /\ UNCHANGED ledger
       ELSE /\ balances' = and_modify(and_modify(balances, sender, 0 - amount),
                                      receiver, amount)
            /\ UNCHANGED <<investments, next_id>>
            /\ Returns(None)

\* buy_investment without the balance test
buy_investment_unchecked(buyer, amount) ==
    /\ call' = Call("buy_investment", buyer, NoName, amount, NoInt)
    /\ IF amount <= 0
       THEN Returns(ErrAmount) /\ UNCHANGED ledger
       ELSE IF buyer \notin DOMAIN balances
       THEN Panics
       ELSE /\ balances' = and_modify(balances, buyer, 0 - amount)
            /\ investments' = insert(investments, next_id, Investment(buyer, amount))
            /\ next_id' = next_id + 1
            /\ Returns(None)

\* buy_investment that increments next_id before it inserts the record
buy_investment_increment_first(buyer, amount) ==
    /\ call' = Call("buy_investment", buyer, NoName, amount, NoInt)
    /\ IF amount <= 0
       THEN Returns(ErrAmount) /\ UNCHANGED ledger
       ELSE IF buyer \notin DOMAIN balances
       THEN Panics
       ELSE IF balances[buyer] < amount
       THEN Returns(ErrBalance) /\ UNCHANGED ledger
       ELSE /\ balances' = and_modify(balances, buyer, 0 - amount)
            /\ investments' = insert(investments, next_id + 1, Investment(buyer, amount))
            /\ next_id' = next_id + 1
            /\ Returns(None)

\* buy_investment that increments next_id twice
buy_investment_double_increment(buyer, amount) ==
    /\ call' = Call("buy_investment", buyer, NoName, amount, NoInt)
    /\ IF amount <= 0
       THEN Returns(ErrAmount) /\ UNCHANGED ledger
       ELSE IF buyer \notin DOMAIN balances
       THEN Panics
       ELSE IF balances[buyer] < amount
       THEN Returns(ErrBalance) /\ UNCHANGED ledger
       ELSE /\ balances' = and_modify(balances, buyer, 0 - amount)
            /\ investments' = insert(investments, next_id, Investment(buyer, amount))
            /\ next_id' = next_id + 2
            /\ Returns(None)

\* buy_investment that forgets to increment next_id
buy_investment_no_increment(buyer, amount) ==
    /\ call' = Call("buy_investment", buyer, NoName, amount, NoInt)
    /\ IF amount <= 0
       THEN Returns(ErrAmount) /\ UNCHANGED ledger
       ELSE IF buyer \notin DOMAIN balances
       THEN Panics
       ELSE IF balances[buyer] < amount
       THEN Returns(ErrBalance) /\ UNCHANGED ledger
       ELSE /\ balances' = and_modify(balances, buyer, 0 - amount)
            /\ investments' = insert(investments, next_id, Investment(buyer, amount))
            /\ next_id' = next_id
            /\ Returns(None)

\* buy_investment that takes an id before the balance test, also when it rejects
buy_investment_early_increment(buyer, amount) ==
    /\ call' = Call("buy_investment", buyer, NoName, amount, NoInt)
    /\ IF amount <= 0
       THEN Returns(ErrAmount) /\ UNCHANGED ledger
       ELSE IF buyer \notin DOMAIN balances
       THEN Panics
       ELSE IF balances[buyer] < amount
       THEN /\ Returns(ErrBalance)
            /\ next_id' = next_id + 1
            /\ UNCHANGED <<balances, investments>>
       ELSE /\ balances' = and_modify(balances, buyer, 0 - amount)
            /\ investments' = insert(investments, next_id, Investment(buyer, amount))
            /\ next_id' = next_id + 1
            /\ Returns(None)

buy_investment(buyer, amount) ==
    /\ call' = Call("buy_investment", buyer, NoName, amount, NoInt)
    /\ IF amount <= 0
       THEN Returns(ErrAmount) /\ UNCHANGED ledger
       ELSE IF buyer \notin DOMAIN balances
       THEN Panics
       ELSE IF balances[buyer] < amount
       THEN Returns(ErrBalance) /\ UNCHANGED ledger
       ELSE /\ balances' = and_modify(balances, buyer, 0 - amount)
            /\ investments' = insert(investments, next_id, Investment(buyer, amount))
            /\ next_id' = next_id + 1
            /\ Returns(None)

\* sell_investment without the ownership test
sell_investment_any_seller(seller, investment_id) ==
    /\ call' = Call("sell_investment", seller, NoName, NoInt, investment_id)
    /\ IF investment_id \in DOMAIN investments
       THEN /\ balances' = and_modify(balances, seller,
                                      investments[investment_id].amount)
            /\ UNCHANGED <<investments, next_id>>
            /\ Returns(None)
       ELSE Returns(ErrNoInvestment) /\ UNCHANGED ledger

\* sell_investment with the two error messages swapped
sell_investment_swapped_errors(seller, investment_id) ==
    /\ call' = Call("sell_investment", seller, NoName, NoInt, investment_id)
    /\ IF investment_id \in DOMAIN investments
       THEN IF investments[investment_id].owner # seller
            THEN Returns(ErrNoInvestment) /\ UNCHANGED ledger
            ELSE /\ balances' = and_modify(balances, seller,
                                           investments[investment_id].amount)
                 /\ UNCHANGED <<investments, next_id>>
                 /\ Returns(None)
       ELSE Returns(ErrNotOwner) /\ UNCHANGED ledger

\* sell_investment with the disabled removal of the sold record enabled
sell_investment_removes(seller, investment_id) ==
    /\ call' = Call("sell_investment", seller, NoName, NoInt, investment_id)
    /\ IF investment_id \in DOMAIN investments
       THEN IF investments[investment_id].owner # seller
            THEN Returns(ErrNotOwner) /\ UNCHANGED ledger
            ELSE /\ balances' = and_modify(balances, seller,
                                           investments[investment_id].amount)
                 /\ investments' = [k \in DOMAIN investments \ {investment_id}
                                       |-> investments[k]]
                 /\ next_id' = next_id
                 /\ Returns(None)
       ELSE Returns(ErrNoInvestment) /\ UNCHANGED ledger

\* sell_investment that credits the amount only the first time: a sold record
\* is kept with amount 0
sell_investment_once(seller, investment_id) ==
    /\ call' = Call("sell_investment", seller, NoName, NoInt, investment_id)
    /\ IF investment_id \in DOMAIN investments
       THEN IF investments[investment_id].owner # seller
            THEN Returns(ErrNotOwner) /\ UNCHANGED ledger
            ELSE /\ balances' = and_modify(balances, seller,
                                           investments[investment_id].amount)
                 /\ investments' = [investments EXCEPT ![investment_id].amount = 0]
                 /\ next_id' = next_id
                 /\ Returns(None)
       ELSE Returns(ErrNoInvestment) /\ UNCHANGED ledger

sell_investment(seller, investment_id) ==
    /\ call' = Call("sell_investment", seller, NoName, NoInt, investment_id)
    /\ IF investment_id \in DOMAIN investments
       THEN IF investments[investment_id].owner # seller
            THEN Returns(ErrNotOwner) /\ UNCHANGED ledger
            ELSE /\ balances' = and_modify(balances, seller,
                                           investments[investment_id].amount)
                 /\ UNCHANGED <<investments, next_id>>
                 /\ Returns(None)
       ELSE Returns(ErrNoInvestment) /\ UNCHANGED ledger

\* ----- the driver: one call per step, none after an abort --------------------
\* balance of an account after a credit stays within the model's bound
Fits(account, amount) ==
    account \in DOMAIN balances => balances[account] + amount <= MaxBalance

DepositStep ==
    \E depositor \in Names, amount \in Amounts :
        ~panicked /\ Fits(depositor, amount) /\ deposit(depositor, amount)

WithdrawStep ==
    \E withdrawer \in Names, amount \in Amounts :
        ~panicked /\ withdraw(withdrawer, amount)

TransferStep ==
    \E sender \in Names, receiver \in Names, amount \in Amounts :
        ~panicked /\ Fits(receiver, amount) /\ transfer(sender, receiver, amount)

BuyStep ==
    \E buyer \in Names, amount \in Amounts :
        ~panicked /\ next_id < MaxNextId /\ buy_investment(buyer, amount)

SellStep ==
    \E seller \in Names, id \in Ids :
        /\ ~panicked
        /\ id \in DOMAIN investments => Fits(seller, investments[id].amount)
        /\ sell_investment(seller, id)

Next == DepositStep \/ WithdrawStep \/ TransferStep \/ BuyStep \/ SellStep

Spec == Init /\ [][Next]_vars

\* ----- properties -------------------------------------------------------------
\* the call made in the step returned None (it did not abort)
Succeeds == error' = None /\ ~panicked'
\* the call made in the step returned Some(e) and wrote nothing
Rejects(e) == error' = e /\ ~panicked' /\ UNCHANGED ledger

AmountOps == {"deposit", "withdraw", "transfer", "buy_investment"}
DebitOps  == {"withdraw", "transfer", "buy_investment"}

\* the balance a credit of n should leave on key (an absent key counts as 0)
Credited(pre, post, key, n) ==
    /\ key \in DOMAIN post
    /\ post[key] = (IF key \in DOMAIN pre THEN pre[key] ELSE 0) + n
\* post differs from pre at most at the keys in `at`
SameExcept(pre, post, at) ==
    /\ DOMAIN pre \subseteq DOMAIN post
    /\ DOMAIN post \subseteq DOMAIN pre \cup at
    /\ \A k \in DOMAIN pre \ at : post[k] = pre[k]

\* C1: every deposit, withdraw, transfer and buy_investment call with
\* amount <= 0 returns "Amount should be greater than zero" and leaves
\* balances, investments and next_id as they were.
C1_NonPositiveAmountRejected ==
    [][ (call'.op \in AmountOps /\ call'.amount <= 0) => Rejects(ErrAmount) ]_vars

C1_Witness ==
    /\ call.op = "withdraw" /\ call.amount = 0 /\ call.actor \in DOMAIN balances
    /\ error = ErrAmount

\* C2: every withdraw, transfer or buy_investment call with amount > 0 whose
\* actor has a balance strictly below the amount returns "Balance is too low"
\* and leaves balances, investments and next_id unchanged.
C2_LowBalanceRejected ==
    [][ ( /\ call'.op \in DebitOps
          /\ call'.amount > 0
          /\ call'.actor \in DOMAIN balances
          /\ balances[call'.actor] < call'.amount )
        => Rejects(ErrBalance) ]_vars

C2_Witness ==
    /\ call.op = "buy_investment" /\ call.amount > 0
    /\ error = ErrBalance /\ balances[call.actor] < call.amount

\* C3: starting from non-negative balances, every account balance is >= 0
\* after any sequence of calls.
C3_BalancesNonNegative == \A a \in DOMAIN balances : balances[a] >= 0

C3_Witness ==
    /\ call.op = "transfer" /\ call.amount > 0 /\ call.actor # call.receiver
    /\ error = None /\ ~panicked
    /\ balances[call.actor] = 0

\* C4: every transfer(A, B, n) that returns success decreases A's balance by
\* exactly n and increases B's balance by exactly n (the two updates cancel
\* when A = B), and the sum of all balances is the same after as before.
C4_TransferConserves ==
    [][ (call'.op = "transfer" /\ Succeeds) =>
        LET A   == call'.actor
            B   == call'.receiver
            n   == call'.amount
            mid == [balances EXCEPT ![A] = @ - n]
        IN  /\ A \in DOMAIN balances
            /\ Credited(mid, balances', B, n)
            /\ SameExcept(mid, balances', {B})
            /\ TotalBalance(balances') = TotalBalance(balances) ]_vars

\* the updates that belong to the operation called in the step
C5_Effect ==
    LET X == call'.actor
        n == call'.amount
    IN  CASE call'.op = "deposit" ->
               /\ Credited(balances, balances', X, n)
               /\ SameExcept(balances, balances', {X})
               /\ UNCHANGED <<investments, next_id>>
          [] call'.op = "withdraw" ->
               /\ balances' = [balances EXCEPT ![X] = @ - n]
               /\ UNCHANGED <<investments, next_id>>
          [] call'.op = "transfer" ->
               LET mid == [balances EXCEPT ![X] = @ - n]
               IN  /\ Credited(mid, balances', call'.receiver, n)
                   /\ SameExcept(mid, balances', {call'.receiver})
                   /\ UNCHANGED <<investments, next_id>>
          [] call'.op = "buy_investment" ->
               /\ balances' = [balances EXCEPT ![X] = @ - n]
               /\ investments' = insert(investments, next_id, Investment(X, n))
               /\ next_id' = next_id + 1
          [] call'.op = "sell_investment" ->
               /\ call'.id \in DOMAIN investments
               /\ Credited(balances, balances', X, investments[call'.id].amount)
               /\ SameExcept(balances, balances', {X})
               /\ UNCHANGED <<investments, next_id>>

\* C5: every call is all-or-nothing: an error leaves the ledger as it was, and
\* a success has applied every update of the operation (deposit: credit;
\* withdraw: debit; transfer: debit and credit; buy_investment: debit, new
\* record, next_id + 1; sell_investment: credit).
C5_AllOrNothing ==
    [][ /\ (error' \in Errors /\ ~panicked') => UNCHANGED ledger
        /\ Succeeds => C5_Effect ]_vars

\* C6: a successful buy_investment(X, n) decreases X's balance by n, adds
\* exactly one record {owner: X, amount: n} under the pre-call next_id, leaves
\* every other record and every other balance unchanged, and increases
\* next_id by exactly 1.
C6_BuyEffect ==
    [][ (call'.op = "buy_investment" /\ Succeeds) =>
        LET X == call'.actor
            n == call'.amount
        IN  /\ X \in DOMAIN balances
            /\ DOMAIN balances' = DOMAIN balances
            /\ balances'[X] = balances[X] - n
            /\ \A k \in DOMAIN balances \ {X} : balances'[k] = balances[k]
            /\ next_id \notin DOMAIN investments
            /\ DOMAIN investments' = DOMAIN investments \cup {next_id}
            /\ investments'[next_id] = Investment(X, n)
            /\ \A k \in DOMAIN investments : investments'[k] = investments[k]
            /\ next_id' = next_id + 1 ]_vars

C6_Witness ==
    /\ call.op = "buy_investment" /\ error = None /\ ~panicked
    /\ next_id - 1 \in DOMAIN investments
    /\ investments[next_id - 1] = Investment(call.actor, call.amount)
    /\ Cardinality(DOMAIN investments) >= 2

\* C7: investment ids are never reused: every successful buy_investment takes
\* an id that no record of the ledger has, so it overwrites no record.
C7_IdsNeverReused ==
    [][ (call'.op = "buy_investment" /\ Succeeds) =>
        /\ Cardinality(DOMAIN investments' \ DOMAIN investments) = 1
        /\ \A k \in DOMAIN investments :
              k \in DOMAIN investments' /\ investments'[k] = investments[k] ]_vars

C7_Witness ==
    /\ call.op = "buy_investment" /\ error = None /\ ~panicked
    /\ \E i, j \in DOMAIN investments :
          i # j /\ j = next_id - 1 /\ investments[i] = investments[j]

\* C8: next_id never decreases; it changes only in a step that is a successful
\* buy_investment, where it grows by exactly 1; rejected calls and deposit,
\* withdraw, transfer and sell_investment leave it unchanged.
C8_NextIdMonotone ==
    [][ /\ next_id' >= next_id
        /\ next_id' # next_id =>
              (call'.op = "buy_investment" /\ Succeeds /\ next_id' = next_id + 1)
        /\ (call'.op = "buy_investment" /\ Succeeds) => next_id' = next_id + 1
        /\ (call'.op # "buy_investment" \/ ~Succeeds) => next_id' = next_id ]_vars

\* a purchased investment (its id is above every id of the snapshot) was sold
C8_Witness ==
    /\ call.op = "sell_investment" /\ error = None /\ ~panicked
    /\ call.id = next_id - 1
    /\ next_id >= 2

\* C9: sell_investment(Y, id) for an existing id whose owner is X # Y returns
\* "Seller can't sell an investment they don't own" and leaves the ledger
\* unchanged; a sale changes no balance but the recorded owner's.
C9_OnlyOwnerSells ==
    [][ call'.op = "sell_investment" =>
        /\ ( /\ call'.id \in DOMAIN investments
             /\ investments[call'.id].owner # call'.actor ) => Rejects(ErrNotOwner)
        /\ balances' # balances =>
              /\ call'.id \in DOMAIN investments
              /\ call'.actor = investments[call'.id].owner
              /\ SameExcept(balances, balances', {investments[call'.id].owner})
              /\ DOMAIN balances' = DOMAIN balances
       ]_vars

C9_Witness ==
    /\ call.op = "sell_investment" /\ error = ErrNotOwner
    /\ call.id \in DOMAIN investments
    /\ call.actor \in DOMAIN balances
    /\ investments[call.id].owner # call.actor

\* C10: sell_investment(X, id) for an id that is no key of investments returns
\* "No investment with this id" and leaves the ledger unchanged.
C10_UnknownInvestmentRejected ==
    [][ (call'.op = "sell_investment" /\ call'.id \notin DOMAIN investments)
        => Rejects(ErrNoInvestment) ]_vars

C10_Witness ==
    /\ call.op = "sell_investment" /\ error = ErrNoInvestment
    /\ call.id \notin DOMAIN investments
    /\ DOMAIN investments # {}

\* the step is a sell_investment call by the recorded owner of an existing id
OwnerSells ==
    /\ call'.op = "sell_investment"
    /\ call'.id \in DOMAIN investments
    /\ investments[call'.id].owner = call'.actor

\* C11: a successful sell_investment(X, id) of an investment owned by X
\* increases X's balance by exactly the recorded amount, does not change
\* next_id and leaves the investments mapping unchanged: the sold record is
\* still present with the same owner and amount.
C11_SellEffect ==
    [][ (call'.op = "sell_investment" /\ Succeeds) =>
        LET X  == call'.actor
            id == call'.id
        IN  /\ id \in DOMAIN investments /\ investments[id].owner = X
            /\ X \in DOMAIN balances
            /\ balances'[X] = balances[X] + investments[id].amount
            /\ next_id' = next_id
            /\ investments' = investments
            /\ id \in DOMAIN investments'
            /\ investments'[id] = Investment(X, investments[id].amount) ]_vars

C11_Witness ==
    /\ call.op = "sell_investment" /\ error = None /\ ~panicked
    /\ call.id \in DOMAIN investments
    /\ investments[call.id].owner = call.actor
    /\ balances[call.actor] >= investments[call.id].amount

\* C12: the same investment id can be sold repeatedly by its owner: every
\* sell_investment(X, i) of a record owned by X succeeds, whatever was sold
\* before, credits X with the recorded amount n > 0 again, raises the sum of
\* all balances by n and leaves the record sellable, so k consecutive sales
\* raise X's balance by k * n and the sum of all balances is not bounded by
\* the initial total plus the deposits made.
C12_RepeatedSale ==
    [][ /\ OwnerSells =>
           LET X == call'.actor
               i == call'.id
               n == investments[i].amount
           IN  /\ Succeeds
               /\ n > 0
               /\ balances'[X] = balances[X] + n
               /\ TotalBalance(balances') = TotalBalance(balances) + n
               /\ i \in DOMAIN investments'
               /\ investments'[i].owner = X
               /\ investments'[i].amount = n
        \* the sale that has just succeeded, made again, is such a sale
        /\ ( /\ call.op = "sell_investment" /\ error = None /\ ~panicked
             /\ call' = call ) => OwnerSells /\ Succeeds ]_vars

\* the owner holds twice the amount of the only investment and nobody else
\* holds anything, as after selling that investment twice
C12_Witness ==
    /\ call.op = "sell_investment" /\ error = None /\ ~panicked
    /\ call.id \in DOMAIN investments
    /\ investments[call.id].owner = call.actor
    /\ balances[call.actor] = 2 * investments[call.id].amount
    /\ TotalBalance(balances) = balances[call.actor]
    /\ Cardinality(DOMAIN investments) = 1

\* C13: an investment record, once present, is never removed and never
\* changes: every id of investments maps to the same owner and amount after
\* every step.
C13_RecordsPermanent ==
    [][ \A id \in DOMAIN investments :
            /\ id \in DOMAIN investments'
            /\ investments'[id] = investments[id] ]_vars

C13_Witness ==
    /\ call.op = "sell_investment" /\ error = None /\ ~panicked
    /\ Cardinality(DOMAIN investments) >= 2
    /\ \E i \in DOMAIN investments : investments[i].owner # call.actor

\* the step is withdraw(X, n) made right after a successful deposit(X, n)
WithdrawAfterDeposit ==
    /\ call.op = "deposit" /\ error = None /\ ~panicked
    /\ call'.op = "withdraw"
    /\ call'.actor = call.actor
    /\ call'.amount = call.amount

\* C14: for every account X and n > 0, a successful deposit(X, n) immediately
\* followed by withdraw(X, n) succeeds and restores X's balance and the whole
\* ledger to what they were before the deposit: the withdrawal takes the
\* credited n off X's balance again and changes nothing else.
C14_DepositWithdrawRoundTrip ==
    [][ WithdrawAfterDeposit =>
        LET X == call'.actor
            n == call'.amount
        IN  /\ Succeeds
            /\ X \in DOMAIN balances
            /\ balances' = [balances EXCEPT ![X] = @ - n]
            /\ UNCHANGED <<investments, next_id>> ]_vars

\* C15: the success/failure classification of each call is exactly its
\* precondition: deposit succeeds iff amount > 0; withdraw, transfer and
\* buy_investment succeed iff amount > 0 and the actor's balance >= amount
\* (balance = amount included, which leaves the actor at zero);
\* sell_investment succeeds iff the id exists and its owner is the seller.
C15_SuccessIffPrecondition ==
    [][ LET X == call'.actor
            n == call'.amount
        IN  /\ call'.op = "deposit" => (Succeeds <=> n > 0)
            /\ call'.op \in DebitOps =>
                  (Succeeds <=> (n > 0 /\ X \in DOMAIN balances /\ balances[X] >= n))
            /\ call'.op = "sell_investment" => (Succeeds <=> OwnerSells)
            /\ ( /\ call'.op \in DebitOps /\ Succeeds
                 /\ balances[X] = n
                 /\ call'.receiver # X ) => balances'[X] = 0 ]_vars

C15_Witness ==
    /\ call.op = "withdraw" /\ call.amount = MaxAmount
    /\ error = None /\ ~panicked
    /\ balances[call.actor] = 0

\* C16: transfer(A, A, n) with n > 0 and A's balance >= n returns success and
\* leaves every balance, A's included, as before; with A's balance < n it is
\* rejected with "Balance is too low" like any other transfer.
C16_SelfTransfer ==
    [][ ( /\ call'.op = "transfer"
          /\ call'.receiver = call'.actor
          /\ call'.amount > 0
          /\ call'.actor \in DOMAIN balances ) =>
        IF balances[call'.actor] >= call'.amount
        THEN Succeeds /\ balances' = balances /\ UNCHANGED <<investments, next_id>>
        ELSE Rejects(ErrBalance) ]_vars

C16_Witness ==
    /\ call.op = "transfer" /\ call.receiver = call.actor
    /\ call.amount > 0
    /\ error = None /\ ~panicked
    /\ balances[call.actor] = call.amount

\* C17: when the named account is no key of balances and amount > 0, deposit
\* returns success and leaves the ledger unchanged, while withdraw, transfer
\* with an absent sender and buy_investment abort instead of returning an
\* error, before any write to the ledger.
C17_AbsentAccount ==
    [][ (call'.op \in AmountOps /\ call'.amount > 0
            /\ call'.actor \notin DOMAIN balances) =>
        IF call'.op = "deposit"
        THEN Succeeds /\ UNCHANGED ledger
        \* no value is returned: `error` keeps the result of the call before
        ELSE panicked' /\ error' = error /\ UNCHANGED ledger ]_vars

C17_Witness ==
    /\ panicked
    /\ call.op = "buy_investment" /\ call.amount > 0
    /\ call.actor \notin DOMAIN balances

\* C18: the set of account identifiers of balances is the same in every
\* reachable state: no call, successful or rejected, adds an account (not
\* even deposit or transfer naming an unknown account) or removes one.
C18_AccountsFixed ==
    [][ DOMAIN balances' = DOMAIN balances ]_vars

C18_Witness ==
    /\ call.op = "transfer" /\ error = None /\ ~panicked
    /\ call.receiver \notin DOMAIN balances
    /\ DOMAIN balances = InitAccounts

\* every key of investments is strictly below next_id
IdsBelowNextId == \A id \in DOMAIN investments : id < next_id

\* C19: if every investment id is strictly below next_id in the initial state,
\* then so it is in every reachable state, and the number of records added
\* since the initial state equals the growth of next_id: every step adds as
\* many records as it adds to next_id.
C19_IdsBelowNextId ==
    [][ IdsBelowNextId =>
        /\ IdsBelowNextId'
        /\ Cardinality(DOMAIN investments') - Cardinality(DOMAIN investments)
              = next_id' - next_id ]_vars

C19_Witness ==
    /\ call.op = "buy_investment" /\ error = None /\ ~panicked
    /\ IdsBelowNextId
    /\ next_id = MaxNextId
    /\ DOMAIN investments # {}

\* C20: each operation changes only what it names: deposit, withdraw and
\* transfer leave investments and next_id unchanged; deposit, withdraw,
\* buy_investment and sell_investment leave the balance of every account but
\* the actor unchanged; transfer leaves the balance of every account but
\* sender and receiver unchanged.
C20_Frame ==
    [][ LET op     == call'.op
            named  == IF op = "transfer" THEN {call'.actor, call'.receiver}
                                         ELSE {call'.actor}
        IN  /\ op \in {"deposit", "withdraw", "transfer"} =>
                  UNCHANGED <<investments, next_id>>
            /\ \A k \in DOMAIN balances \ named :
                  k \in DOMAIN balances' /\ balances'[k] = balances[k] ]_vars

C20_Witness ==
    /\ call.op = "deposit" /\ error = None /\ ~panicked
    /\ call.actor \in DOMAIN balances
    /\ \E k \in DOMAIN balances \ {call.actor} : balances[k] > 0
    /\ DOMAIN investments # {}

====
